---- MODULE Spec2Model ----
(***************************************************************************)
(* Model of the Bi-LSTM repository's sequence packing and loss code:       *)
(*   - FullBiLSTM.create_packed_seq      (src/bilstm/src/model.py)         *)
(*   - LSTMLosses.forward                (src/losses.py)                   *)
(*   - SBContrastiveLoss.forward         (src/losses.py)                   *)
(* Tensors are 0-indexed arrays (functions over 0..n-1), as in the source. *)
(* Three specifications share the variables: Spec (create_packed_seq),     *)
(* SpecLoss (LSTMLosses.forward) and SpecSB (SBContrastiveLoss.forward).   *)
(***************************************************************************)
EXTENDS Integers, Sequences, FiniteSets, TLC

\* ---- bounds of the model ------------------------------------------------
MaxBatch == 2      \* create_packed_seq: largest batch size
MaxSeqLen == 2     \* create_packed_seq: largest sequence length
NumImgs == 2       \* create_packed_seq: rows of feats (N imgs)
MaxShift == 0      \* create_packed_seq: image n has feature n + z, z in 0..MaxShift
LossMaxBatch == 2  \* LSTMLosses.forward: largest batch size
LossMaxLen == 2    \* LSTMLosses.forward: largest sequence length
MaxFeat == 1       \* LSTMLosses.forward: feature components range over 0..MaxFeat
MaxHidShift == 0   \* LSTMLosses.forward: hidden components are shifted by 0..MaxHidShift
MaxPairs == 2      \* SBContrastiveLoss.forward: largest batch of pairs
MaxDesc == 2       \* descriptor components range over 0..MaxDesc

\* ---- program parameters -------------------------------------------------
InputDim == 1      \* FullBiLSTM.input_dim: the feature dimension
margin == 2        \* SBContrastiveLoss.margin (default 2.0)

VARIABLES
    pc,                \* position in the modelled call
    batch_first,       \* self.batch_first
    feats,             \* create_packed_seq: N imgs x feat_dim
    seq_lens,          \* sequence lengths
    lookup_table,      \* lookup_table[i][j]: index into feats
    seqs,              \* the padded tensor being built
    order,             \* sorted(range(len(seq_lens)), key=..., reverse=True)
    ordered_seq_lens,  \* sorted(seq_lens, reverse=True)
    packed_feats,      \* the PackedSequence returned
    hidden,            \* LSTMLosses.forward: outputs of the LSTM (padded)
    fw_prob,           \* fw_prob[i][j]: what the forward probability scores
    bw_prob,           \* bw_prob[i][j]: what the backward probability scores
    desc1,             \* SBContrastiveLoss.forward: first branch
    desc2,             \* second branch
    label,             \* similarity labels
    euclidean_distance,
    contrastive_terms, \* the per-pair tensor that torch.mean averages
    loss_contrastive   \* the mean, as the fraction sum / n

packVars == <<feats, seq_lens, lookup_table, seqs, order, ordered_seq_lens>>

lossVars == <<hidden, fw_prob, bw_prob>>

sbVars == <<desc1, desc2, label, euclidean_distance, contrastive_terms, loss_contrastive>>

vars == <<pc, batch_first, packed_feats, packVars, lossVars, sbVars>>

None == <<>>

\* ---- arrays -------------------------------------------------------------
Range(n) == 0 .. (n - 1)

Size(a) == Cardinality(DOMAIN a)

Zeros(d) == [c \in Range(d) |-> 0]

Zeros3(d0, d1, d2) == [a \in Range(d0) |-> [b \in Range(d1) |-> Zeros(d2)]]

MaxOf(a) == CHOOSE m \in {a[k] : k \in DOMAIN a} : \A k \in DOMAIN a : a[k] <= m

Shape(t) == <<Size(t), Size(t[0]), Size(t[0][0])>>

\* a Python list (TLA+ sequence) as a 0-indexed array
ToArray(s) == [k \in Range(Len(s)) |-> s[k + 1]]

\* ---- create_packed_seq: the fill loop, model.py 87-92 --------------------
SetEntryRepeatLast(s, fts, table, i, j, seq_len) ==
    IF j < seq_len
    THEN [s EXCEPT ![i][j] = fts[table[i][j]]]
    ELSE [s EXCEPT ![i][j] = fts[table[i][seq_len - 1]]]

SetEntry(s, fts, table, i, j, seq_len) ==
    IF j < seq_len
    THEN [s EXCEPT ![i][j] = fts[table[i][j]]]
    ELSE [s EXCEPT ![i][j] = Zeros(Size(fts[0]))]

RECURSIVE FillFrom(_, _, _, _, _)
FillFrom(s, fts, lens, table, n) ==
    LET width == MaxOf(lens)
        i == n \div width
        j == n % width
    IN  IF n >= Size(lens) * width
        THEN s
        ELSE FillFrom(SetEntry(s, fts, table, i, j, lens[i]), fts, lens, table, n + 1)

\* ---- sorted(..., reverse=True): stable, descending ------------------------
\* insert index k into the list srt (already ordered), after every element
\* whose key is >= key[k]: equal keys keep their input order
InsertDescBeforeEqual(srt, k, key) ==
    LET before == SelectSeq(srt, LAMBDA m : key[m] > key[k])
        after == SelectSeq(srt, LAMBDA m : key[m] <= key[k])
    IN  before \o <<k>> \o after

InsertDesc(srt, k, key) ==
    LET before == SelectSeq(srt, LAMBDA m : key[m] >= key[k])
        after == SelectSeq(srt, LAMBDA m : key[m] < key[k])
    IN  before \o <<k>> \o after

RECURSIVE SortIndicesFrom(_, _, _)
SortIndicesFrom(srt, key, k) ==
    IF k >= Size(key) THEN srt
    ELSE SortIndicesFrom(InsertDesc(srt, k, key), key, k + 1)

\* sorted(range(len(key)), key=lambda k: key[k], reverse=True)
SortedIndicesReverse(key) == ToArray(SortIndicesFrom(<<>>, key, 0))

\* insert value v into a list of values kept in descending order
InsertValueDesc(srt, v) ==
    SelectSeq(srt, LAMBDA w : w >= v) \o <<v>> \o SelectSeq(srt, LAMBDA w : w < v)

RECURSIVE SortValuesFrom(_, _, _)
SortValuesFrom(srt, a, k) ==
    IF k >= Size(a) THEN srt
    ELSE SortValuesFrom(InsertValueDesc(srt, a[k]), a, k + 1)

SortedAscending(a) ==
    LET d == SortValuesFrom(<<>>, a, 0)
    IN  [k \in Range(Size(a)) |-> d[Size(a) - k]]

\* sorted(a, reverse=True)
SortedReverse(a) == ToArray(SortValuesFrom(<<>>, a, 0))

\* seqs[index_list, :]
IndexRows(t, idx) == [k \in Range(Size(idx)) |-> t[idx[k]]]

\* seqs.permute(1, 0, 2)
PermuteNone(t) == t

Permute102(t) == [b \in Range(Size(t[0])) |-> [a \in Range(Size(t)) |-> t[a][b]]]

\* ---- torch.nn.utils.rnn.pack_padded_sequence ------------------------------
\* batch_sizes[t] = number of sequences longer than t; data = the real
\* entries, time step by time step (padding is dropped)
BatchSizes(lengths) ==
    [t \in Range(MaxOf(lengths)) |->
        Cardinality({b \in DOMAIN lengths : lengths[b] > t})]

RECURSIVE PackData(_, _, _, _)
PackData(tm, sizes, t, b) ==
    IF t >= Size(sizes) THEN <<>>
    ELSE IF b >= sizes[t] THEN PackData(tm, sizes, t + 1, 0)
    ELSE <<tm[t][b]>> \o PackData(tm, sizes, t, b + 1)

\* torch rejects a length list that does not fit the tensor's batch and time
\* dimensions
PackPaddedSequence(input, lengths, bf) ==
    LET tm == IF bf THEN Permute102(input) ELSE input
        sizes == BatchSizes(lengths)
    IN  IF Size(tm[0]) # Size(lengths) \/ MaxOf(lengths) > Size(tm)
        THEN "RuntimeError"
        ELSE [data |-> PackData(tm, sizes, 0, 0), batch_sizes |-> sizes]

\* ---- inputs ---------------------------------------------------------------
\* the features of N images: image n has every component n + z, so that two
\* images never share a feature and image 0 is the zero vector when z = 0
FeatTables ==
    {[n \in Range(NumImgs) |-> [c \in Range(InputDim) |-> n + z]] : z \in 0 .. MaxShift}

\* a lookup_table row for a sequence of length l in a table of the given
\* width: l arbitrary indices, then surplus entries the code must not read
LookupRows(l, width) ==
    {[j \in Range(width) |-> IF j < l THEN r[j] ELSE NumImgs - 1] :
        r \in [Range(l) -> Range(NumImgs)]}

RECURSIVE TablesFrom(_, _)
TablesFrom(lens, k) ==
    IF k = 0 THEN {<<>>}
    ELSE {Append(t, r) : t \in TablesFrom(lens, k - 1),
                         r \in LookupRows(lens[k - 1], MaxOf(lens))}

Init ==
    /\ pc = "start"
    /\ batch_first \in BOOLEAN
    /\ feats \in FeatTables
    /\ \E B \in 1 .. MaxBatch : seq_lens \in [Range(B) -> 1 .. MaxSeqLen]
    /\ lookup_table \in {ToArray(t) : t \in TablesFrom(seq_lens, Size(seq_lens))}
    /\ seqs = None
    /\ order = None
    /\ ordered_seq_lens = None
    /\ packed_feats = None
    /\ hidden = None /\ fw_prob = None /\ bw_prob = None
    /\ desc1 = None /\ desc2 = None /\ label = None
    /\ euclidean_distance = None /\ contrastive_terms = None
    /\ loss_contrastive = None

\* model.py 80-92: allocate the zero tensor and fill it
FillSeqs ==
    /\ pc = "start"
    /\ seqs' = FillFrom(Zeros3(Size(seq_lens), MaxOf(seq_lens), Size(feats[0])),
                        feats, seq_lens, lookup_table, 0)
    /\ pc' = "filled"
    /\ UNCHANGED <<batch_first, feats, seq_lens, lookup_table, order,
                   ordered_seq_lens, packed_feats, lossVars, sbVars>>

\* model.py 94-96: order the sequences from larger to shorter
Reorder ==
    /\ pc = "filled"
    /\ order' = SortedIndicesReverse(seq_lens)
    /\ seqs' = IndexRows(seqs, order')
    /\ ordered_seq_lens' = SortedReverse(seq_lens)
    /\ pc' = "ordered"
    /\ UNCHANGED <<batch_first, feats, seq_lens, lookup_table, packed_feats,
                   lossVars, sbVars>>

\* model.py 98-102: lay the tensor out and pack it
Pack ==
    /\ pc = "ordered"
    /\ seqs' = IF ~batch_first THEN Permute102(seqs) ELSE seqs
    /\ packed_feats' = PackPaddedSequence(seqs', ordered_seq_lens, batch_first)
    /\ pc' = "packed"
    /\ UNCHANGED <<batch_first, feats, seq_lens, lookup_table, order,
                   ordered_seq_lens, lossVars, sbVars>>

Next == FillSeqs \/ Reorder \/ Pack

Spec == Init /\ [][Next]_vars

\* ---- properties of create_packed_seq --------------------------------------
\* the padded tensor in batch-major layout, whatever the layout of seqs
BatchMajor(t) == IF pc = "packed" /\ ~batch_first THEN Permute102(t) ELSE t

Count(a, v) == Cardinality({k \in DOMAIN a : a[k] = v})

\* C1: after the fill loop, for every sequence i and every position
\* j < max(seq_lens), the padded batch holds feats[lookup_table[i][j]] when
\* j < seq_lens[i] and the all-zero vector when j >= seq_lens[i].
C1_PaddedBatch ==
    pc = "filled" =>
        /\ DOMAIN seqs = DOMAIN seq_lens
        /\ \A i \in DOMAIN seq_lens :
              /\ DOMAIN seqs[i] = Range(MaxOf(seq_lens))
              /\ \A j \in Range(MaxOf(seq_lens)) :
                    seqs[i][j] = IF j < seq_lens[i]
                                 THEN feats[lookup_table[i][j]]
                                 ELSE [c \in Range(InputDim) |-> 0]

\* a filled batch with a padded position in a sequence whose last real item
\* is not the zero vector, and two real items that differ
C1_Witness ==
    /\ pc = "filled"
    /\ \E i \in DOMAIN seq_lens :
          /\ seq_lens[i] < MaxOf(seq_lens)
          /\ \E c \in Range(InputDim) : feats[lookup_table[i][seq_lens[i] - 1]][c] # 0
          /\ \E c \in Range(InputDim) : seqs[i][seq_lens[i] - 1][c] # 0
    /\ \E i \in DOMAIN seq_lens : seq_lens[i] > 1 /\ seqs[i][0] # seqs[i][1]

\* C2: the length list handed to pack_padded_sequence is non-increasing and
\* is a reordering of the input seq_lens, whatever the input order.
C2_OrderedLens ==
    pc \in {"ordered", "packed"} =>
        /\ DOMAIN ordered_seq_lens = DOMAIN seq_lens
        /\ \A k \in DOMAIN ordered_seq_lens :
              (k + 1) \in DOMAIN ordered_seq_lens =>
                  ordered_seq_lens[k] >= ordered_seq_lens[k + 1]
        /\ \A v \in 1 .. MaxSeqLen : Count(ordered_seq_lens, v) = Count(seq_lens, v)

\* the input lengths were not in order: a shorter sequence came first
C2_Witness ==
    /\ pc = "packed"
    /\ \E a, b \in DOMAIN seq_lens : a < b /\ seq_lens[a] < seq_lens[b]
    /\ ordered_seq_lens # seq_lens

C7_Reordering ==
    pc \in {"ordered", "packed"} =>
        /\ DOMAIN order = DOMAIN seq_lens
        /\ {order[k] : k \in DOMAIN order} = DOMAIN seq_lens
        /\ \A k \in DOMAIN order :
              /\ ordered_seq_lens[k] = seq_lens[order[k]]
              /\ \A j \in Range(MaxOf(seq_lens)) :
                    BatchMajor(seqs)[k][j] =
                        IF j < ordered_seq_lens[k]
                        THEN feats[lookup_table[order[k]][j]]
                        ELSE [c \in Range(InputDim) |-> 0]
        /\ \A a, b \in DOMAIN order :
              (a < b /\ seq_lens[order[a]] = seq_lens[order[b]]) => order[a] < order[b]

\* a batch that had to be reordered: its first row is not the first input
\* sequence, and the rows it pairs with the lengths differ
C7_Witness ==
    /\ pc = "packed"
    /\ order[0] # 0
    /\ ordered_seq_lens[0] > ordered_seq_lens[1]
    /\ BatchMajor(seqs)[0][0] # BatchMajor(seqs)[1][0]
    /\ \E c \in Range(InputDim) : BatchMajor(seqs)[0][ordered_seq_lens[0] - 1][c] # 0

\* ==== LSTMLosses.forward (losses.py 23-80) =================================
\* exp, log and the real division are outside the integers: the model keeps,
\* for every (i, j), the two operands of each torch.dot and their product
\* (the exponent of the probability's numerator).

Min(a, b) == IF a < b THEN a ELSE b

\* ---- torch.nn.utils.rnn.pad_packed_sequence -------------------------------
Offset(sizes, t) ==
    LET RECURSIVE Sum(_)
        Sum(u) == IF u <= 0 THEN 0 ELSE sizes[u - 1] + Sum(u - 1)
    IN  Sum(t)

PadPackedSequence(packed, bf) ==
    LET sizes == packed.batch_sizes
        T == Size(sizes)
        B == sizes[0]
        d == Size(packed.data[1])
        tm == [t \in Range(T) |-> [b \in Range(B) |->
                  IF b < sizes[t] THEN packed.data[Offset(sizes, t) + b + 1]
                  ELSE Zeros(d)]]
    IN  [feats |-> IF bf THEN Permute102(tm) ELSE tm,
         seq_lens |-> [b \in Range(B) |-> Cardinality({t \in Range(T) : sizes[t] > b})]]

\* ---- the per-sequence tensors, losses.py 47-59 ----------------------------
\* an item of a feature sequence: its value and the place it was read from
\* (<<i, j>> in feats, <<>> for the start/stop vector)
StartStop(d) == [k \in Range(1) |-> [v |-> Zeros(d), at |-> <<>>]]

\* feats[i, :seq_len, :]
SliceRow(t, i, seq_len) ==
    [j \in Range(Min(seq_len, Size(t[i]))) |-> [v |-> t[i][j], at |-> <<i, j>>]]

\* torch.cat((a, b))
Cat(a, b) ==
    [k \in Range(Size(a) + Size(b)) |-> IF k < Size(a) THEN a[k] ELSE b[k - Size(a)]]

FwSeqFeatsUnshifted(t, i, seq_len) ==
    Cat(StartStop(Size(t[0][0])), SliceRow(t, i, seq_len))

FwSeqFeats(t, i, seq_len) ==
    Cat(SliceRow(t, i, seq_len), StartStop(Size(t[0][0])))

BwSeqFeats(t, i, seq_len) ==
    Cat(StartStop(Size(t[0][0])), SliceRow(t, i, seq_len))

\* hidden[i, :seq_len, :hidden.size()[2] // 2]
FwSeqHiddens(h, i, seq_len) ==
    LET half == Size(h[0][0]) \div 2
    IN  [j \in Range(Min(seq_len, Size(h[i]))) |-> [c \in Range(half) |-> h[i][j][c]]]

\* hidden[i, :seq_len, hidden.size()[2] // 2:]
BwSeqHiddens(h, i, seq_len) ==
    LET half == Size(h[0][0]) \div 2
    IN  [j \in Range(Min(seq_len, Size(h[i]))) |->
            [c \in Range(Size(h[0][0]) - half) |-> h[i][j][c + half]]]

\* torch.dot
Dot(a, b) ==
    LET RECURSIVE Sum(_)
        Sum(c) == IF c <= 0 THEN 0 ELSE a[c - 1] * b[c - 1] + Sum(c - 1)
    IN  Sum(Size(a))

\* losses.py 65: torch.dot(fw_seq_hiddens[j], fw_seq_feats[j + 1])
FwProb(t, h, i, j, seq_len) ==
    LET hv == FwSeqHiddens(h, i, seq_len)[j]
        item == FwSeqFeats(t, i, seq_len)[j + 1]
    IN  [hiddens |-> hv, feats |-> item.v, at |-> item.at, dot |-> Dot(hv, item.v)]

\* losses.py 71: torch.dot(bw_seq_hiddens[j], bw_seq_feats[j])
BwProb(t, h, i, j, seq_len) ==
    LET hv == BwSeqHiddens(h, i, seq_len)[j]
        item == BwSeqFeats(t, i, seq_len)[j]
    IN  [hiddens |-> hv, feats |-> item.v, at |-> item.at, dot |-> Dot(hv, item.v)]

\* an index outside a tensor raises IndexError (slices are clipped instead):
\* feats[i], hidden[i], the feats[k] of the denominators, fw_seq_hiddens[j]
LossRaises(t, h, lens) ==
    \E i \in Range(Size(lens)) :
        IF i \notin DOMAIN t \/ i \notin DOMAIN h
        THEN TRUE
        ELSE \E j \in Range(lens[i]) :
                \/ \E k \in Range(Size(lens)) : k \notin DOMAIN t
                \/ j \notin DOMAIN FwSeqHiddens(h, i, lens[i])
                \/ (j + 1) \notin DOMAIN FwSeqFeats(t, i, lens[i])

\* ---- inputs ---------------------------------------------------------------
\* lengths as pack_padded_sequence accepts them: non-increasing
SortedLens ==
    UNION {{l \in [Range(B) -> 1 .. LossMaxLen] :
              \A k \in Range(B - 1) : l[k] >= l[k + 1]} : B \in 1 .. LossMaxBatch}

\* batch-major B x T x d tensors that are zero at the padded positions
PaddedTensors(lens, d, maxv) ==
    {t \in [DOMAIN lens -> [Range(MaxOf(lens)) -> [Range(d) -> 0 .. maxv]]] :
        \A i \in DOMAIN lens : \A j \in Range(MaxOf(lens)) :
            j >= lens[i] => t[i][j] = Zeros(d)}

\* the padded LSTM output, batch-major B x T x 2d: every component of
\* every real position has a value of its own, the padded positions are zero
TaggedHidden(lens, z) ==
    LET T == MaxOf(lens)
        w == 2 * InputDim
    IN  [i \in DOMAIN lens |-> [j \in Range(T) |->
            IF j < lens[i] THEN [c \in Range(w) |-> 1 + z + c + w * (i * T + j)]
            ELSE Zeros(w)]]

InitLoss ==
    /\ pc = "loss_start"
    /\ batch_first \in BOOLEAN
    /\ \E lens \in SortedLens :
          /\ \E t \in PaddedTensors(lens, InputDim, MaxFeat) :
                packed_feats = PackPaddedSequence(t, lens, TRUE)
          /\ \E z \in 0 .. MaxHidShift :
                hidden = IF batch_first THEN TaggedHidden(lens, z)
                         ELSE Permute102(TaggedHidden(lens, z))
    /\ feats = None /\ seq_lens = None
    /\ lookup_table = None /\ seqs = None /\ order = None /\ ordered_seq_lens = None
    /\ fw_prob = None /\ bw_prob = None
    /\ desc1 = None /\ desc2 = None /\ label = None
    /\ euclidean_distance = None /\ contrastive_terms = None
    /\ loss_contrastive = None

\* losses.py 36-80, when no index is out of range
LossForward ==
    /\ pc = "loss_start"
    /\ LET r == PadPackedSequence(packed_feats, batch_first)
       IN  /\ LossRaises(r.feats, hidden, r.seq_lens) = FALSE
           /\ feats' = r.feats
           /\ seq_lens' = r.seq_lens
           /\ fw_prob' = [i \in DOMAIN r.seq_lens |-> [j \in Range(r.seq_lens[i]) |->
                             FwProb(r.feats, hidden, i, j, r.seq_lens[i])]]
           /\ bw_prob' = [i \in DOMAIN r.seq_lens |-> [j \in Range(r.seq_lens[i]) |->
                             BwProb(r.feats, hidden, i, j, r.seq_lens[i])]]
    /\ pc' = "loss_done"
    /\ UNCHANGED <<batch_first, packed_feats, hidden, lookup_table, seqs, order,
                   ordered_seq_lens, sbVars>>

\* losses.py 36-80, when an index is out of range: the call raises
LossIndexError ==
    /\ pc = "loss_start"
    /\ LET r == PadPackedSequence(packed_feats, batch_first)
       IN  /\ LossRaises(r.feats, hidden, r.seq_lens) = TRUE
           /\ feats' = r.feats
           /\ seq_lens' = r.seq_lens
    /\ pc' = "loss_error"
    /\ UNCHANGED <<batch_first, packed_feats, hidden, fw_prob, bw_prob, lookup_table,
                   seqs, order, ordered_seq_lens, sbVars>>

NextLoss == LossForward \/ LossIndexError

SpecLoss == InitLoss /\ [][NextLoss]_vars

\* C6: with batch-first inputs, for every sequence i and timestep
\* j < seq_len[i], the forward probability scores the first half of
\* hidden[i, j] against feats[i, j+1], or the zero stop vector at the last
\* timestep; the backward probability scores the second half of hidden[i, j]
\* against feats[i, j-1], or the zero start vector at j = 0; no target comes
\* from a padded position or from another sequence.
C6_Targets ==
    (pc = "loss_done" /\ batch_first) =>
        /\ DOMAIN fw_prob = DOMAIN seq_lens
        /\ DOMAIN bw_prob = DOMAIN seq_lens
        /\ \A i \in DOMAIN seq_lens :
              /\ DOMAIN fw_prob[i] = Range(seq_lens[i])
              /\ DOMAIN bw_prob[i] = Range(seq_lens[i])
              /\ \A j \in Range(seq_lens[i]) :
                    /\ fw_prob[i][j].hiddens = [c \in Range(InputDim) |-> hidden[i][j][c]]
                    /\ fw_prob[i][j].feats = IF j = seq_lens[i] - 1
                                             THEN [c \in Range(InputDim) |-> 0]
                                             ELSE feats[i][j + 1]
                    /\ fw_prob[i][j].at = IF j = seq_lens[i] - 1 THEN <<>> ELSE <<i, j + 1>>
                    /\ bw_prob[i][j].hiddens =
                          [c \in Range(InputDim) |-> hidden[i][j][c + InputDim]]
                    /\ bw_prob[i][j].feats = IF j = 0
                                             THEN [c \in Range(InputDim) |-> 0]
                                             ELSE feats[i][j - 1]
                    /\ bw_prob[i][j].at = IF j = 0 THEN <<>> ELSE <<i, j - 1>>
                    /\ \A p \in {fw_prob[i][j].at, bw_prob[i][j].at} :
                          p # <<>> => (p[1] = i /\ p[2] < seq_lens[i])

\* a batch-first batch with a padded position, a sequence of two distinct
\* non-zero items, and hidden states whose two halves differ
C6_Witness ==
    /\ pc = "loss_done"
    /\ batch_first
    /\ \E i \in DOMAIN seq_lens : seq_lens[i] < MaxOf(seq_lens)
    /\ \E i \in DOMAIN seq_lens :
          /\ seq_lens[i] >= 2
          /\ feats[i][0] # feats[i][1]
          /\ fw_prob[i][0].feats = feats[i][1]
          /\ bw_prob[i][1].feats = feats[i][0]
          /\ fw_prob[i][0].hiddens # bw_prob[i][0].hiddens
          /\ fw_prob[i][0].dot # bw_prob[i][1].dot

\* ==== SBContrastiveLoss.forward (losses.py 130-152) ========================
\* Descriptors have integer components; F.pairwise_distance is the
\* Euclidean norm of the difference (its eps of 1e-6 is below the integers'
\* resolution and is left out).

SumSq(x, y) ==
    LET RECURSIVE Sum(_)
        Sum(c) == IF c <= 0 THEN 0 ELSE (x[c - 1] - y[c - 1]) * (x[c - 1] - y[c - 1]) + Sum(c - 1)
    IN  Sum(Size(x))

\* the square root, exact on the squares the bounded descriptors produce
Sqrt(n) == CHOOSE r \in 0 .. n : r * r = n

PairwiseDistance(x, y) == Sqrt(SumSq(x, y))

\* torch.clamp(x, min=0.0)
ClampMin0(x) == IF x < 0 THEN 0 ELSE x

\* losses.py 148-151: the tensor under torch.mean, for one pair
ContrastiveTerm(lab, d) ==
    (1 - lab) * (d * d) + lab * (ClampMin0(margin - d) * ClampMin0(margin - d))

SumOf(a) ==
    LET RECURSIVE Sum(_)
        Sum(k) == IF k <= 0 THEN 0 ELSE a[k - 1] + Sum(k - 1)
    IN  Sum(Size(a))

InitSB ==
    /\ pc = "sb_start"
    /\ \E n \in 1 .. MaxPairs :
          /\ desc1 \in [Range(n) -> [Range(InputDim) -> 0 .. MaxDesc]]
          /\ desc2 \in [Range(n) -> [Range(InputDim) -> 0 .. MaxDesc]]
          /\ label \in [Range(n) -> {0, 1}]
    /\ euclidean_distance = None /\ contrastive_terms = None
    /\ loss_contrastive = None
    /\ batch_first = None /\ packed_feats = None
    /\ feats = None /\ seq_lens = None
    /\ lookup_table = None /\ seqs = None /\ order = None /\ ordered_seq_lens = None
    /\ hidden = None /\ fw_prob = None /\ bw_prob = None

SBForward ==
    /\ pc = "sb_start"
    /\ euclidean_distance' = [i \in DOMAIN desc1 |-> PairwiseDistance(desc1[i], desc2[i])]
    /\ contrastive_terms' = [i \in DOMAIN desc1 |->
                                ContrastiveTerm(label[i], euclidean_distance'[i])]
    /\ loss_contrastive' = [sum |-> SumOf(contrastive_terms'), n |-> Size(desc1)]
    /\ pc' = "sb_done"
    /\ UNCHANGED <<batch_first, packed_feats, packVars, lossVars, desc1, desc2, label>>

NextSB == SBForward

SpecSB == InitSB /\ [][NextSB]_vars

\* the documented loss (losses.py 139-144): a matching pair is a pair i with
\* label 1, its non-matching descriptors are those of the other pairs k
Hinge(x) == IF x < 0 THEN 0 ELSE x

DocumentedLoss(f, v, lab) ==
    LET d(x, y) == PairwiseDistance(x, y)
        pairs == {<<i, k>> \in (DOMAIN f) \X (DOMAIN f) : lab[i] = 1 /\ k # i}
        term(p) == Hinge(margin - d(f[p[1]], v[p[1]]) + d(f[p[1]], v[p[2]]))
                   + Hinge(margin - d(v[p[1]], f[p[1]]) + d(v[p[1]], f[p[2]]))
        RECURSIVE Sum(_)
        Sum(S) == IF S = {} THEN 0
                  ELSE LET p == CHOOSE q \in S : TRUE IN term(p) + Sum(S \ {p})
    IN  Sum(pairs)

\* C4: forward returns the stochastic bidirectional contrastive loss
\* sum_f(sum_k(max(0, m - d(f, v) + d(f, v_k)))) +
\* sum_v(sum_k(max(0, m - d(v, f) + d(v, f_k)))) of the batch.
C4_DocumentedLoss ==
    pc = "sb_done" =>
        loss_contrastive.sum = loss_contrastive.n * DocumentedLoss(desc1, desc2, label)

\* C5: label 1 is a similar pair (contribution zero at distance 0 and never
\* decreasing as the distance grows), label 0 a dissimilar pair
\* (contribution never increasing as the distance grows).
C5_LabelConvention ==
    pc = "sb_done" =>
        \A i, k \in DOMAIN label :
            /\ (label[i] = 1 /\ euclidean_distance[i] = 0) => contrastive_terms[i] = 0
            /\ (label[i] = 1 /\ label[k] = 1
                  /\ euclidean_distance[i] <= euclidean_distance[k])
                 => contrastive_terms[i] <= contrastive_terms[k]
            /\ (label[i] = 0 /\ label[k] = 0
                  /\ euclidean_distance[i] <= euclidean_distance[k])
                 => contrastive_terms[i] >= contrastive_terms[k]

====
